---- MODULE Spec2Model ----
(***************************************************************************)
(* Device Usage Analytics dashboard (src/app.py).                          *)
(*                                                                         *)
(* The script is re-run from top to bottom on every user interaction.      *)
(* One action of this module is one such run: the widget that triggered    *)
(* it takes its new value, the Load Data handler runs when its button was  *)
(* the trigger, and the dashboard is rendered when data_loaded and df say  *)
(* so.  Session state (df, data_loaded, debug_mode) and widget state       *)
(* survive between runs; everything else is recomputed by the run.         *)
(*                                                                         *)
(* Numbers: durations are whole seconds; the rounded metric columns are    *)
(* kept as integers in hundredths of an hour (1.5 h is 150).               *)
(***************************************************************************)
EXTENDS Integers, Sequences, FiniteSets

VARIABLES
    df,                 \* st.session_state.df
    data_loaded,        \* st.session_state.data_loaded
    debug_mode,         \* st.session_state.debug_mode (absent reads as FALSE)
    start_date,         \* value of the "Start Date" input
    end_date,           \* value of the "End Date" input
    selected_partners,  \* value of the 'partner_filter' multiselect
    selected_brands,    \* value of the 'brand_filter' multiselect
    metric_sort,        \* value of the "Sort Metrics By" selectbox
    search_term,        \* value of the "Search Apps" text input
    failed_loads,       \* number of Load runs that ended in the failure branch
    fetch_calls,        \* the fetch_data calls made by the last run, in order
    last_response,      \* what the HTTP endpoint answered in the last run
    shown,              \* messages and sections the last run put on the page
    fault,              \* the last run ended in an unhandled exception
    app_metrics         \* app_metrics as computed by the last run

vars == <<df, data_loaded, debug_mode, start_date, end_date, selected_partners,
          selected_brands, metric_sort, search_term, failed_loads, fetch_calls,
          last_response, shown, fault, app_metrics>>

----------------------------------------------------------------------------
(* Bounds of the model.                                                    *)

Today == 0              \* day number of the current date
MaxFailures == 2        \* failing Load runs explored
MaxSessionRows == 1     \* rows of a response body in Spec
MaxAggRows == 3         \* rows of a response body in SpecAgg

(* Program constants.                                                      *)

SecondsPerHour == 3600  \* metrics[col] / 3600
RoundScale == 100       \* metrics.round(2): two decimals
DefaultRangeDays == 7   \* timedelta(days=7)

(* Missing-value markers of the dataframe library.  NA marks a missing     *)
(* cell of a text column, NaN a missing number, Inf a division of a        *)
(* positive number by zero.                                                *)
NA == "<NA>"
NaN == -1
Inf == -2

----------------------------------------------------------------------------
(* Text as the code sees it.                                               *)

\* Lexicographic order of the texts that occur as group keys.
Collation == <<"A", "B", "nan">>

\* Characters of a duration cell: 0..9 are the digits, NonDigit any other
\* character.
NonDigit == 10

RECURSIVE DecimalValue(_)
DecimalValue(cell) ==
    IF cell = <<>> THEN 0
    ELSE 10 * DecimalValue(SubSeq(cell, 1, Len(cell) - 1)) + cell[Len(cell)]

\* pd.read_csv: an empty field of a text column is read as missing.
read_csv_text(field) == IF field = "" THEN NA ELSE field

\* df[col].astype(str): every value becomes text, a missing one the text "nan".
astype_str(v) == IF v = NA THEN "nan" ELSE v

\* A conversion that fills an unparsable cell with 0 instead of marking it
\* missing.
to_numeric_zero(cell) ==
    IF cell # <<>> /\ \A i \in 1..Len(cell) : cell[i] \in 0..9
    THEN DecimalValue(cell) ELSE 0

\* pd.to_numeric(df[col], errors='coerce'): an unparsable or empty cell
\* becomes NaN.
to_numeric(cell) ==
    IF cell # <<>> /\ \A i \in 1..Len(cell) : cell[i] \in 0..9
    THEN DecimalValue(cell) ELSE NaN

----------------------------------------------------------------------------
(* HTTP responses and fetch_data.                                          *)

None == [isNone |-> TRUE, rows |-> <<>>]
Table(rows) == [isNone |-> FALSE, rows |-> rows]

NoResponse == [kind |-> "none", status |-> 0, wellformed |-> FALSE, rows |-> <<>>]
NetworkError == [kind |-> "network_error", status |-> 0, wellformed |-> FALSE,
                 rows |-> <<>>]
Http(status, wellformed, rows) ==
    [kind |-> "http", status |-> status, wellformed |-> wellformed, rows |-> rows]

RawRow(partner, brand, package, hardware_id, seconds) ==
    [partner |-> partner, brand |-> brand, package |-> package,
     hardware_id |-> hardware_id, total_time_in_foreground |-> seconds]

\* The type conversions of fetch_data applied to one row of the body.
ConvertRow(raw) ==
    [partner |-> astype_str(read_csv_text(raw.partner)),
     brand |-> astype_str(read_csv_text(raw.brand)),
     package |-> astype_str(read_csv_text(raw.package)),
     hardware_id |-> astype_str(read_csv_text(raw.hardware_id)),
     total_time_in_foreground |-> to_numeric(raw.total_time_in_foreground)]

\* fetch_data: None when requests.post raises, when raise_for_status raises
\* (status 400..599), or when the body cannot be parsed into the expected
\* columns; otherwise the converted table, which may have no rows.
fetch_data(resp) ==
    IF resp.kind # "http" THEN None
    ELSE IF resp.status >= 400 /\ resp.status < 600 THEN None
    ELSE IF ~resp.wellformed THEN None
    ELSE Table([i \in 1..Len(resp.rows) |-> ConvertRow(resp.rows[i])])

----------------------------------------------------------------------------
(* calculate_app_metrics.                                                  *)

RECURSIVE SumSeq(_)
SumSeq(s) == IF s = <<>> THEN 0 ELSE Head(s) + SumSeq(Tail(s))

Column(rows, col) == [i \in 1..Len(rows) |-> rows[i][col]]

\* Series.nunique(): the number of distinct values, missing ones not counted.
nunique(values) == Cardinality({values[i] : i \in 1..Len(values)} \ {NA})

\* The non-missing numbers of a column: sum and mean skip NaN.
Present(values) == SelectSeq(values, LAMBDA v : v # NaN)

\* round(num / den, 2) in hundredths, ties to the even neighbour.
Round2(num, den) ==
    LET scaled == RoundScale * num
        q == scaled \div den
        r == scaled % den
    IN  IF 2 * r < den THEN q
        ELSE IF 2 * r > den THEN q + 1
        ELSE IF q % 2 = 0 THEN q ELSE q + 1

\* A row of metrics whose avg_time_per_device was left in seconds.
GroupMetricsDeviceInSeconds(package, group) ==
    LET reach == nunique(Column(group, "hardware_id"))
        times == Present(Column(group, "total_time_in_foreground"))
        total == SumSeq(times)
    IN  [package |-> package,
         reach |-> reach,
         total_time |-> Round2(total, SecondsPerHour),
         avg_time_per_session |->
             IF times = <<>> THEN NaN ELSE Round2(total, Len(times) * SecondsPerHour),
         avg_time_per_device |->
             IF reach = 0 THEN (IF total = 0 THEN NaN ELSE Inf)
             ELSE Round2(total, reach)]

\* A row of metrics with the aggregate columns named in the wrong order:
\* 'reach' receives the mean and 'avg_time_per_session' the distinct count.
GroupMetricsMislabelled(package, group) ==
    LET count == nunique(Column(group, "hardware_id"))
        times == Present(Column(group, "total_time_in_foreground"))
        total == SumSeq(times)
        mean == IF times = <<>> THEN 0 ELSE total \div Len(times)
    IN  [package |-> package,
         reach |-> mean,
         total_time |-> Round2(total, SecondsPerHour),
         avg_time_per_session |-> count,
         avg_time_per_device |->
             IF mean = 0 THEN (IF total = 0 THEN NaN ELSE Inf)
             ELSE Round2(total, mean * SecondsPerHour)]

\* One row of the metrics table: the aggregates of one package's rows,
\* avg_time_per_device = total_time / reach, the three time columns divided
\* by 3600 and rounded to two decimals.
GroupMetrics(package, group) ==
    LET reach == nunique(Column(group, "hardware_id"))
        times == Present(Column(group, "total_time_in_foreground"))
        total == SumSeq(times)
    IN  [package |-> package,
         reach |-> reach,
         total_time |-> Round2(total, SecondsPerHour),
         avg_time_per_session |->
             IF times = <<>> THEN NaN ELSE Round2(total, Len(times) * SecondsPerHour),
         avg_time_per_device |->
             IF reach = 0 THEN (IF total = 0 THEN NaN ELSE Inf)
             ELSE Round2(total, reach * SecondsPerHour)]

\* df.groupby('package'): the group keys in sorted order, a missing key
\* dropped.
GroupKeys(rows) ==
    SelectSeq(Collation, LAMBDA k : \E i \in 1..Len(rows) : rows[i].package = k)

RECURSIVE InsertAscending(_, _)
InsertAscending(m, sorted) ==
    IF sorted = <<>> THEN <<m>>
    ELSE IF m.reach < Head(sorted).reach THEN <<m>> \o sorted
    ELSE <<Head(sorted)>> \o InsertAscending(m, Tail(sorted))

RECURSIVE InsertDescending(_, _)
InsertDescending(m, sorted) ==
    IF sorted = <<>> THEN <<m>>
    ELSE IF m.reach > Head(sorted).reach THEN <<m>> \o sorted
    ELSE <<Head(sorted)>> \o InsertDescending(m, Tail(sorted))

\* sort_values('reach') with the default ascending order.
RECURSIVE sort_values_ascending(_)
sort_values_ascending(metrics) ==
    IF metrics = <<>> THEN <<>>
    ELSE InsertAscending(metrics[Len(metrics)],
                         sort_values_ascending(SubSeq(metrics, 1, Len(metrics) - 1)))

\* metrics.sort_values('reach', ascending=False); rows of equal reach keep
\* their group order.
RECURSIVE sort_values(_)
sort_values(metrics) ==
    IF metrics = <<>> THEN <<>>
    ELSE InsertDescending(metrics[Len(metrics)],
                          sort_values(SubSeq(metrics, 1, Len(metrics) - 1)))

calculate_app_metrics(rows) ==
    LET keys == GroupKeys(rows)
        metrics == [i \in 1..Len(keys) |->
                       GroupMetrics(keys[i],
                                    SelectSeq(rows, LAMBDA r : r.package = keys[i]))]
    IN  sort_values(metrics)

----------------------------------------------------------------------------
(* Rendering the dashboard.                                                *)

\* sorted(df[col].unique().tolist()), as the set the multiselect offers.
Options(rows, col) == {rows[i][col] : i \in 1..Len(rows)}

\* df[df['partner'].isin(selected_partners) & df['brand'].isin(selected_brands)]
ApplyFilters(rows, partners, brands) ==
    SelectSeq(rows, LAMBDA r : r.partner \in partners /\ r.brand \in brands)

\* The dashboard is rendered when data_loaded and df is not None.
Rendered(held, loaded) == loaded /\ ~held.isNone

\* app_metrics.iloc[0]: reading the first row of an empty table raises.
QuickInsightsRaises(metrics) == Len(metrics) = 0

SortKeys == {"reach", "total_time", "avg_time_per_device", "avg_time_per_session"}
SearchTerms == {"", "a"}

----------------------------------------------------------------------------
(* The inputs explored.                                                    *)

SeqsUpTo(S, n) == UNION {[1..k -> S] : k \in 0..n}

\* Spec: a response is a transport failure, an error status, an unparsable
\* body, or a body of at most MaxSessionRows rows (none included).
SessionRawRows ==
    {RawRow("p1", "b1", "A", "d1", <<3, 6, 0, 0>>),
     RawRow("p2", "b2", "B", "", <<1, NonDigit>>)}

SessionResponses ==
    {NetworkError, Http(500, TRUE, <<>>), Http(200, FALSE, <<>>)}
    \cup {Http(200, TRUE, body) : body \in SeqsUpTo(SessionRawRows, MaxSessionRows)}

\* SpecAgg: bodies of one to MaxAggRows rows over two packages, four
\* sources (partner, brand, device cell; device d1 reports through both
\* partners, one device cell is empty) and three duration cells (one
\* unparsable).  Bodies are taken up to the order of their rows.
AggPackages == <<"A", "B">>
AggSources == << <<"p1", "b1", "d1">>, <<"p2", "b1", "d1">>,
                 <<"p1", "b2", "d2">>, <<"p2", "b2", "">> >>
AggCells == << <<3, 6, 0, 0>>, <<7, 2, 0, 0>>, <<1, NonDigit>> >>

AggRowCount == Len(AggPackages) * Len(AggSources) * Len(AggCells)

AggRawRow(n) ==
    LET c == n % Len(AggCells)
        d == (n \div Len(AggCells)) % Len(AggSources)
        k == n \div (Len(AggCells) * Len(AggSources))
    IN  RawRow(AggSources[d + 1][1], AggSources[d + 1][2], AggPackages[k + 1],
               AggSources[d + 1][3], AggCells[c + 1])

AggBodies ==
    UNION {{[i \in 1..k |-> AggRawRow(s[i])] :
               s \in {t \in [1..k -> 0..(AggRowCount - 1)] :
                         \A i \in 1..(k - 1) : t[i] <= t[i + 1]}} :
           k \in 1..MaxAggRows}

AggResponses == {Http(200, TRUE, body) : body \in AggBodies}

\* The dates explored in either date input: a week ago and today, none
\* later than max_value = now.
DateChoices == {Today - DefaultRangeDays, Today}

----------------------------------------------------------------------------
(* The Load Data handler.                                                  *)

\* A handler that takes any table, an empty one included, as a success.
LoadSucceededIgnoringEmpty(result) == ~result.isNone

\* if df is not None and not df.empty
LoadSucceeded(result) == ~result.isNone /\ Len(result.rows) > 0

\* A handler that stores whatever fetch_data returned.
HeldAfterLoadUnconditional(result, held) == result

\* st.session_state.df = df, in the success branch only.
HeldAfterLoad(result, held) == IF LoadSucceeded(result) THEN result ELSE held

\* A handler whose success branch does not set the flag.
DataLoadedNeverSet(result) == FALSE

\* st.session_state.data_loaded = True in the success branch, False in the
\* failure branch.
DataLoadedAfterLoad(result) == LoadSucceeded(result)

----------------------------------------------------------------------------
(* The state machine.                                                      *)

Init ==
    /\ df = None
    /\ data_loaded = FALSE
    /\ debug_mode = FALSE
    /\ start_date = Today - DefaultRangeDays
    /\ end_date = Today
    /\ selected_partners = {}
    /\ selected_brands = {}
    /\ metric_sort = "reach"
    /\ search_term = ""
    /\ failed_loads = 0
    /\ fetch_calls = <<>>
    /\ last_response = NoResponse
    /\ shown = {"load_button", "welcome"}
    /\ fault = FALSE
    /\ app_metrics = <<>>

\* The part of a run below "Continue only if data is loaded": the widgets
\* take the values sp, sb, srt, term, dbg, the metrics are computed from
\* the filtered table, and Quick Insights reads their first row.  `above`
\* is what the handler above showed, `extra` what the sidebar adds; the Load
\* Data button is drawn before any of this.
Render(held, loaded, sp, sb, srt, term, dbg, above, extra) ==
    \E rendered \in {Rendered(held, loaded)} :
    \E metrics \in {IF rendered
                    THEN calculate_app_metrics(ApplyFilters(held.rows, sp, sb))
                    ELSE <<>>} :
    \E raises \in {rendered /\ QuickInsightsRaises(metrics)} :
        /\ selected_partners' = (IF rendered THEN sp ELSE {})
        /\ selected_brands' = (IF rendered THEN sb ELSE {})
        /\ metric_sort' = (IF rendered THEN srt ELSE "reach")
        /\ search_term' = (IF rendered THEN term ELSE "")
        /\ debug_mode' = dbg
        /\ app_metrics' = metrics
        /\ fault' = raises
        /\ shown' = {"load_button"} \cup above \cup
             (IF ~rendered THEN {"welcome"}
              ELSE {"dashboard"} \cup extra
                   \cup (IF raises THEN {} ELSE {"quick_insights"})
                   \cup (IF dbg /\ ~raises THEN {"debug_info"} ELSE {}))

\* A run that no press of Load Data triggered: fetch_data is not called and
\* the session's table and flag are read only.
Rerun(sp, sb, srt, term, dbg, extra) ==
    /\ UNCHANGED <<df, data_loaded, failed_loads>>
    /\ fetch_calls' = <<>>
    /\ last_response' = NoResponse
    /\ Render(df, data_loaded, sp, sb, srt, term, dbg, {}, extra)

\* "Load Data" pressed; resp is what the endpoint answers.
LoadData(resp) ==
    \E result \in {fetch_data(resp)} :
    \E held \in {HeldAfterLoad(result, df)} :
    \E loaded \in {DataLoadedAfterLoad(result)} :
    LET before == Rendered(df, data_loaded)
        after == Rendered(held, loaded)
        partners == Options(held.rows, "partner")
        brands == Options(held.rows, "brand")
        \* a multiselect keeps its value while it stays on the page with the
        \* same options; otherwise it starts from default = all options
        sp == IF before /\ partners = Options(df.rows, "partner")
              THEN selected_partners ELSE partners
        sb == IF before /\ brands = Options(df.rows, "brand")
              THEN selected_brands ELSE brands
        srt == IF before THEN metric_sort ELSE "reach"
        term == IF before THEN search_term ELSE ""
        \* the checkbox starts from value=False when it comes onto the page
        dbg == IF after /\ ~before THEN FALSE ELSE debug_mode
        above == (IF debug_mode /\ resp.kind = "http" THEN {"debug_response"} ELSE {})
                 \cup (IF result.isNone THEN {"Error"} ELSE {})
                 \cup (IF LoadSucceeded(result) THEN {"Successfully loaded"}
                       ELSE {"Failed to load data"})
    IN  /\ LoadSucceeded(result) \/ failed_loads < MaxFailures
        /\ df' = held
        /\ data_loaded' = loaded
        /\ failed_loads' = (IF LoadSucceeded(result) THEN failed_loads
                            ELSE failed_loads + 1)
        /\ fetch_calls' = <<[start_date |-> start_date, end_date |-> end_date]>>
        /\ last_response' = resp
        /\ UNCHANGED <<start_date, end_date>>
        /\ \E s1 \in {sp} : \E s2 \in {sb} :
               Render(held, loaded, s1, s2, srt, term, dbg, above, {})

Load == \E resp \in SessionResponses : LoadData(resp)

SetStartDate ==
    \E d \in DateChoices :
        /\ start_date' = d
        /\ UNCHANGED end_date
        /\ Rerun(selected_partners, selected_brands, metric_sort, search_term,
                 debug_mode, {})

SetEndDate ==
    \E d \in DateChoices :
        /\ end_date' = d
        /\ UNCHANGED start_date
        /\ Rerun(selected_partners, selected_brands, metric_sort, search_term,
                 debug_mode, {})

ToggleDebug ==
    /\ Rendered(df, data_loaded)
    /\ UNCHANGED <<start_date, end_date>>
    /\ Rerun(selected_partners, selected_brands, metric_sort, search_term,
             ~debug_mode, {})

ChangePartnerFilter ==
    /\ Rendered(df, data_loaded)
    /\ \E sp \in SUBSET Options(df.rows, "partner") :
        /\ UNCHANGED <<start_date, end_date>>
        /\ Rerun(sp, selected_brands, metric_sort, search_term, debug_mode, {})

ChangeBrandFilter ==
    /\ Rendered(df, data_loaded)
    /\ \E sb \in SUBSET Options(df.rows, "brand") :
        /\ UNCHANGED <<start_date, end_date>>
        /\ Rerun(selected_partners, sb, metric_sort, search_term, debug_mode, {})

ChangeSort ==
    /\ Rendered(df, data_loaded)
    /\ \E srt \in SortKeys :
        /\ UNCHANGED <<start_date, end_date>>
        /\ Rerun(selected_partners, selected_brands, srt, search_term, debug_mode, {})

ChangeSearch ==
    /\ Rendered(df, data_loaded)
    /\ \E term \in SearchTerms :
        /\ UNCHANGED <<start_date, end_date>>
        /\ Rerun(selected_partners, selected_brands, metric_sort, term, debug_mode, {})

\* "Prepare Download" pressed: app_metrics.to_csv and the download button.
PrepareDownload ==
    /\ Rendered(df, data_loaded)
    /\ UNCHANGED <<start_date, end_date>>
    /\ Rerun(selected_partners, selected_brands, metric_sort, search_term,
             debug_mode, {"download"})

Next ==
    \/ Load
    \/ SetStartDate
    \/ SetEndDate
    \/ ToggleDebug
    \/ ChangePartnerFilter
    \/ ChangeBrandFilter
    \/ ChangeSort
    \/ ChangeSearch
    \/ PrepareDownload

Spec == Init /\ [][Next]_vars

\* The aggregation explored over richer tables: one load of any body of
\* AggResponses, then any change of the two filters.
FirstLoad == df.isNone /\ \E resp \in AggResponses : LoadData(resp)

NextAgg ==
    \/ FirstLoad
    \/ ChangePartnerFilter
    \/ ChangeBrandFilter

SpecAgg == Init /\ [][NextAgg]_vars

----------------------------------------------------------------------------
(* Properties.                                                             *)

\* What the endpoint's answer of the last run converts to.
Fetched == fetch_data(last_response)

\* The last run was a press of Load Data.
LoadRun == fetch_calls # <<>>

NonEmptyTable(t) == ~t.isNone /\ Len(t.rows) > 0

Abs(x) == IF x < 0 THEN -x ELSE x

\* h hundredths is num / den rounded to two decimals, whatever the tie rule.
IsRounded(h, num, den) == 2 * Abs(h * den - RoundScale * num) <= den

RECURSIVE SumOver(_, _)
SumOver(S, f) ==
    IF S = {} THEN 0
    ELSE LET x == CHOOSE y \in S : TRUE IN f[x] + SumOver(S \ {x}, f)

\* The table calculate_app_metrics was given by the last run.
FilteredRows == ApplyFilters(df.rows, selected_partners, selected_brands)

RowsOf(rows, package) == {i \in 1..Len(rows) : rows[i].package = package}

\* A duration cell of the body that is not a number.
Malformed(cell) == cell = <<>> \/ \E i \in 1..Len(cell) : cell[i] \notin 0..9

\* C1: a Load run whose fetch fails (fetch_data returns None) leaves the held
\* table as it was, shows the error messages, and ends without an unhandled
\* exception.
C1_FailedLoadKeepsTable ==
    [][(fetch_calls' # <<>> /\ fetch_data(last_response').isNone)
          => /\ df' = df
             /\ {"Error", "Failed to load data"} \subseteq shown'
             /\ ~fault']_vars

\* C1 witness: a fetch has just failed while a table was held.
C1_Witness ==
    /\ LoadRun
    /\ Fetched.isNone
    /\ ~df.isNone
    /\ "Error" \in shown

\* C2 as stated: the held table changes only in a Load run whose fetch
\* succeeded (returned a table), and after every such run it is the table
\* just fetched.
C2_OnlySuccessfulFetchWrites ==
    [][/\ df' # df => (fetch_calls' # <<>> /\ ~fetch_data(last_response').isNone)
       /\ (fetch_calls' # <<>> /\ ~fetch_data(last_response').isNone)
             => df' = fetch_data(last_response')]_vars

\* C2 amended: the held table changes only in a Load run whose fetch returned
\* a table with at least one row, after which it is exactly that table; every
\* other run, a Load run that fetched an empty table included, leaves it
\* unchanged.
C2_OnlyNonEmptyFetchWrites ==
    [][/\ df' # df => (fetch_calls' # <<>> /\ NonEmptyTable(fetch_data(last_response')))
       /\ (fetch_calls' # <<>> /\ NonEmptyTable(fetch_data(last_response')))
             => df' = fetch_data(last_response')
       /\ (fetch_calls' = <<>> \/ ~NonEmptyTable(fetch_data(last_response')))
             => df' = df]_vars

\* C2 witness: a reload has put its table in place of the one held while the
\* dashboard was up with a narrowed partner filter.
C2_Witness ==
    /\ LoadRun
    /\ NonEmptyTable(Fetched)
    /\ df = Fetched
    /\ selected_partners # Options(df.rows, "partner")

\* C3: a run calls fetch_data at most once; a failed Load run ends idle with
\* the Load Data button on the page; and a Load run that follows any number
\* of failed ones and fetches a non-empty table ends with that table held
\* and data_loaded true.
C3_FailuresStayRetryable ==
    [][/\ Len(fetch_calls') <= 1
       /\ (fetch_calls' # <<>> /\ ~NonEmptyTable(fetch_data(last_response')))
             => ("load_button" \in shown' /\ ~fault' /\ ~data_loaded')
       /\ (fetch_calls' # <<>> /\ NonEmptyTable(fetch_data(last_response')))
             => (df' = fetch_data(last_response') /\ data_loaded')]_vars

\* C3 witness: a load has succeeded after MaxFailures failed ones.
C3_Witness ==
    /\ failed_loads = MaxFailures
    /\ LoadRun
    /\ NonEmptyTable(Fetched)
    /\ df = Fetched
    /\ data_loaded

\* C4: every call of fetch_data gets start_date <= end_date, neither later
\* than the current date.
C4_FetchDatesOrdered ==
    \A i \in 1..Len(fetch_calls) :
        /\ fetch_calls[i].start_date <= fetch_calls[i].end_date
        /\ fetch_calls[i].start_date <= Today
        /\ fetch_calls[i].end_date <= Today

\* C5: the metrics table has exactly one row per package present in the table
\* it was computed from; each row's reach is the number of distinct
\* hardware_id values of the package, its total_time the sum of the durations
\* in hours, its avg_time_per_session their mean in hours, its
\* avg_time_per_device the sum per device in hours, each to two decimals;
\* the rows are in descending order of reach; and rows {A,d1,3600},
\* {A,d2,7200} give reach 2, total 3.0, per session 1.5, per device 1.5.
C5_MetricsPerPackage ==
    Rendered(df, data_loaded) =>
        LET rows == FilteredRows
            n == Len(app_metrics)
        IN  /\ n = Cardinality(Options(rows, "package"))
            /\ {app_metrics[i].package : i \in 1..n} = Options(rows, "package")
            /\ \A i \in 1..n :
                 LET m == app_metrics[i]
                     group == RowsOf(rows, m.package)
                     timed == {j \in group : rows[j].total_time_in_foreground # NaN}
                     total == SumOver(timed, Column(rows, "total_time_in_foreground"))
                 IN  /\ m.reach = Cardinality({rows[j].hardware_id : j \in group})
                     /\ IsRounded(m.total_time, total, SecondsPerHour)
                     /\ timed # {} =>
                          IsRounded(m.avg_time_per_session, total,
                                    Cardinality(timed) * SecondsPerHour)
                     /\ IsRounded(m.avg_time_per_device, total,
                                  m.reach * SecondsPerHour)
            /\ \A i \in 1..n : \A j \in i..n :
                 app_metrics[i].reach >= app_metrics[j].reach
            /\ ( /\ Column(rows, "package") = <<"A", "A">>
                 /\ Column(rows, "hardware_id") = <<"d1", "d2">>
                 /\ Column(rows, "total_time_in_foreground") = <<3600, 7200>> )
               => app_metrics = <<[package |-> "A", reach |-> 2, total_time |-> 300,
                                   avg_time_per_session |-> 150,
                                   avg_time_per_device |-> 150]>>

\* C5 witness: package B, second in group order, comes first because its
\* reach is the larger.
C5_Witness ==
    /\ Rendered(df, data_loaded)
    /\ Len(app_metrics) = 2
    /\ app_metrics[1].package = "B"
    /\ app_metrics[1].reach > app_metrics[2].reach

\* C6: in every metrics row with reach > 0, avg_time_per_device and
\* total_time / reach, both as reported, differ by at most 0.01.
C6_PerDeviceIsTotalOverReach ==
    \A i \in 1..Len(app_metrics) :
        app_metrics[i].reach > 0 =>
            Abs(app_metrics[i].avg_time_per_device * app_metrics[i].reach
                  - app_metrics[i].total_time) <= app_metrics[i].reach

\* C6 witness: a row of reach 3 whose reported per-device time times 3 is not
\* the reported total.
C6_Witness ==
    \E i \in 1..Len(app_metrics) :
        /\ app_metrics[i].reach = 3
        /\ app_metrics[i].avg_time_per_device * 3 # app_metrics[i].total_time

\* C7: every package of the metrics of the filtered table is a package of the
\* metrics of the held table, with a reach no larger.
C7_FilteredReachNoLarger ==
    Rendered(df, data_loaded) =>
        LET full == calculate_app_metrics(df.rows)
        IN  \A i \in 1..Len(app_metrics) :
                \E j \in 1..Len(full) :
                    /\ full[j].package = app_metrics[i].package
                    /\ app_metrics[i].reach <= full[j].reach

\* C7 witness: the filter has removed one package and lowered the reach of
\* another.
C7_Witness ==
    /\ Rendered(df, data_loaded)
    /\ LET full == calculate_app_metrics(df.rows)
       IN  /\ Len(app_metrics) = 1
           /\ Len(full) = 2
           /\ \E j \in 1..2 : /\ full[j].package = app_metrics[1].package
                              /\ app_metrics[1].reach < full[j].reach

\* C8: when a duration cell of the body is malformed the fetch succeeds and
\* keeps every row, the row's duration being missing; the package's sum and
\* mean are those of its other rows, and its reach counts the row's
\* hardware_id.
C8_MalformedCellKept ==
    LET raw == last_response.rows
        bad == {i \in 1..Len(raw) : Malformed(raw[i].total_time_in_foreground)}
        seconds == [i \in 1..Len(raw) |->
                       IF i \in bad THEN 0
                       ELSE DecimalValue(raw[i].total_time_in_foreground)]
    IN  (LoadRun /\ last_response.kind = "http" /\ last_response.wellformed
           /\ last_response.status = 200 /\ bad # {})
        => /\ ~df.isNone
           /\ data_loaded
           /\ Len(df.rows) = Len(raw)
           /\ \A i \in bad :
                /\ df.rows[i].total_time_in_foreground = NaN
                /\ df.rows[i].package = raw[i].package
                /\ \E k \in 1..Len(app_metrics) :
                     LET m == app_metrics[k]
                         group == RowsOf(raw, raw[i].package)
                         good == group \ bad
                         total == SumOver(good, seconds)
                     IN  /\ m.package = raw[i].package
                         /\ IsRounded(m.total_time, total, SecondsPerHour)
                         /\ IF good = {} THEN m.avg_time_per_session = NaN
                            ELSE IsRounded(m.avg_time_per_session, total,
                                           Cardinality(good) * SecondsPerHour)
                         /\ m.reach = Cardinality({df.rows[j].hardware_id : j \in group})
                         /\ m.reach >= 1

\* C8 witness: a package of two rows, one malformed, on two devices: reach 2,
\* sum and mean those of the good row alone (2.0 h).
C8_Witness ==
    /\ LoadRun
    /\ Len(last_response.rows) = 2
    /\ Malformed(last_response.rows[2].total_time_in_foreground)
    /\ ~Malformed(last_response.rows[1].total_time_in_foreground)
    /\ Len(app_metrics) = 1
    /\ app_metrics[1].reach = 2
    /\ app_metrics[1].total_time = 200
    /\ app_metrics[1].avg_time_per_session = 200

\* C9: a package all of whose rows came with an empty hardware_id cell has
\* reach 0 in the metrics.
C9_AllMissingDevicesReachZero ==
    LET raw == last_response.rows
    IN  (LoadRun /\ NonEmptyTable(Fetched)) =>
            \A k \in 1..Len(app_metrics) :
                (\A i \in RowsOf(raw, app_metrics[k].package) : raw[i].hardware_id = "")
                    => app_metrics[k].reach = 0

\* C10: whenever the dashboard is rendered the run ends without an unhandled
\* exception and Quick Insights has a first metrics row to read.
C10_RenderNeverFaults ==
    Rendered(df, data_loaded) => (~fault /\ Len(app_metrics) > 0)

====
